---------------------------- MODULE Spec2Model ----------------------------
(***************************************************************************)
(* A model of ISpectrumSender (iPlug2): the short-time spectral analysis   *)
(* pipeline that windows a block of samples into K overlapped frames,      *)
(* transforms every completed frame and encodes it into the output buffer. *)
(*                                                                         *)
(* binary32 values are modelled as fixed-point numbers with 20 fractional  *)
(* bits (truncating), together with the IEEE special values NaN, +Inf and  *)
(* -Inf, and a token for storage that was never written.                   *)
(***************************************************************************)
EXTENDS Integers, Sequences, FiniteSets, TLC

(***************************************************************************)
(* Template parameters of the instantiation that is modelled, and bounds.  *)
(***************************************************************************)
MAXNC == 1
MAX_FFT_SIZE == 4
MaxOverlap == 2
MaxOps == 2

Channels == 1..MAXNC
Slots == 1..MAX_FFT_SIZE

(***************************************************************************)
(* Fixed-point arithmetic on the magnitudes of finite values.              *)
(***************************************************************************)
Limb == 2 ^ 10
One == Limb * Limb

Abs(a) == IF a < 0 THEN 0 - a ELSE a
Sgn(a) == IF a < 0 THEN 0 - 1 ELSE IF a > 0 THEN 1 ELSE 0

\* floor(a * b / One) for a, b >= 0, by limbs so that no product overflows
MulAbs(a, b) ==
  LET a2 == a \div One
      a1 == (a % One) \div Limb
      a0 == a % Limb
      b2 == b \div One
      b1 == (b % One) \div Limb
      b0 == b % Limb
  IN  a2 * b2 * One + (a2 * b1 + a1 * b2) * Limb + (a2 * b0 + a1 * b1 + a0 * b2)
        + ((a1 * b0 + a0 * b1 + ((a0 * b0) \div Limb)) \div Limb)

MulFix(a, b) == Sgn(a) * Sgn(b) * MulAbs(Abs(a), Abs(b))

\* the n * 5 fractional bits of r / b, for 0 <= r < b
RECURSIVE DivBits(_, _, _)
DivBits(r, b, n) ==
  IF n = 0 THEN 0
  ELSE LET t == r * 32
       IN  (t \div b) * (32 ^ (n - 1)) + DivBits(t % b, b, n - 1)

\* floor(a * One / b) for a >= 0, b > 0
DivAbs(a, b) == (a \div b) * One + DivBits(a % b, b, 4)

DivFix(a, b) == Sgn(a) * Sgn(b) * DivAbs(Abs(a), Abs(b))

\* (c * c) % One: the part of the square that MulAbs(c, c) drops
SquareRem(c) ==
  ((((2 * (c \div Limb) * (c % Limb)) % Limb) * Limb) + (c % Limb) * (c % Limb)) % One

\* q + rem / One <= v, for the quotient and the remainder of a square
Fits(q, rem, v) == q < v \/ (q = v /\ rem = 0)

\* r with the bit set when the square still fits under v
TryBit(v, r, c) == IF Fits(MulAbs(c, c), SquareRem(c), v) THEN c ELSE r

\* the largest r with r * r <= v * One (the square root, truncated), found bit
\* by bit from the root r >= 0 of the bits above
RECURSIVE SqrtBits(_, _, _)
SqrtBits(v, r, bit) ==
  IF r < 0 \/ bit < 0 THEN r
  ELSE SqrtBits(v, TryBit(v, r, r + 2 ^ bit), bit - 1)

SqrtFix(v) == SqrtBits(v, 0, 24)

\* the decimal literal n * 10^-9 (0 <= n <= 10^9), truncated to 20 bits
Dec9(n) ==
  LET q  == n \div 1953125
      r  == n % 1953125
      q1 == (r * 64) \div 15625
      r1 == (r * 64) % 15625
  IN  q * 2048 + ((q1 * 32 + ((r1 * 32) \div 15625)) \div 125)

(***************************************************************************)
(* float values.                                                           *)
(***************************************************************************)
Fin(v) == [k |-> "fin", v |-> v]
NaN == [k |-> "nan", v |-> 0]
PInf == [k |-> "inf", v |-> 1]
NInf == [k |-> "inf", v |-> 0 - 1]
Indet == [k |-> "indeterminate", v |-> 0]

Zero == Fin(0)
FOne == Fin(One)
FDec(n) == Fin(Dec9(n))

IsFin(a) == a.k = "fin"
IsNaN(a) == a.k = "nan"
IsInf(a) == a.k = "inf"
FSign(a) == Sgn(a.v)
InfOf(s) == IF s < 0 THEN NInf ELSE PInf

FNeg(a) == IF IsFin(a) \/ IsInf(a) THEN [a EXCEPT !.v = 0 - a.v] ELSE a

FAdd(a, b) ==
  IF IsNaN(a) \/ IsNaN(b) THEN NaN
  ELSE IF IsInf(a) /\ IsInf(b) THEN (IF a.v = b.v THEN a ELSE NaN)
  ELSE IF IsInf(a) THEN a
  ELSE IF IsInf(b) THEN b
  ELSE Fin(a.v + b.v)

FSub(a, b) == FAdd(a, FNeg(b))

FMul(a, b) ==
  IF IsNaN(a) \/ IsNaN(b) THEN NaN
  ELSE IF IsInf(a) \/ IsInf(b)
       THEN (IF FSign(a) * FSign(b) = 0 THEN NaN ELSE InfOf(FSign(a) * FSign(b)))
  ELSE Fin(MulFix(a.v, b.v))

FDiv(a, b) ==
  IF IsNaN(a) \/ IsNaN(b) THEN NaN
  ELSE IF IsInf(a) THEN (IF IsInf(b) THEN NaN
                         ELSE InfOf(FSign(a) * (IF FSign(b) < 0 THEN 0 - 1 ELSE 1)))
  ELSE IF IsInf(b) THEN Zero
  ELSE IF b.v = 0 THEN (IF a.v = 0 THEN NaN ELSE InfOf(FSign(a)))
  ELSE Fin(DivFix(a.v, b.v))

FSqrt(a) ==
  IF IsNaN(a) THEN NaN
  ELSE IF IsInf(a) THEN (IF a.v > 0 THEN PInf ELSE NaN)
  ELSE IF a.v < 0 THEN NaN
  ELSE Fin(SqrtFix(a.v))

RECURSIVE FSum(_, _)
\* f[1] + ... + f[n], accumulated from 0.0f in index order
FSum(f, n) == IF n = 0 THEN Zero ELSE FAdd(FSum(f, n - 1), f[n])

RECURSIVE Tab(_, _)
\* the array <<F(1), ..., F(n)>>, each entry computed once
Tab(F(_), n) == IF n = 0 THEN << >> ELSE Append(Tab(F, n - 1), F(n))


(***************************************************************************)
(* Enumerations and the precondition on the transform size.                *)
(***************************************************************************)
EWindowType == {"Hann", "BlackmanHarris", "Hamming", "Flattop", "Rectangular"}
EOutputType == {"Complex", "MagPhase"}

RECURSIVE IsPow2(_)
IsPow2(v) == IF v <= 1 THEN v = 1 ELSE v % 2 = 0 /\ IsPow2(v \div 2)

\* v && ((v & (v - 1)) == 0), for the non-negative sizes that are modelled
is_powerof2(v) == v # 0 /\ IsPow2(v)

\* the three assertions of the constructor
CtorAsserts(fftSize) ==
  is_powerof2(fftSize) /\ fftSize > 0 /\ fftSize <= MAX_FFT_SIZE

\* the precondition of the base class's SetBufferSize: a size within capacity
SetBufferSizeOk(bufferSize) == bufferSize > 0 /\ bufferSize <= MAX_FFT_SIZE

(***************************************************************************)
(* Window generation.                                                      *)
(***************************************************************************)
\* std::cos(2 * PI * p / M) for the float divisor M = fftSize - 1: exact at
\* the angles the sizes 1..MAX_FFT_SIZE produce; p / M is 0 / 0 when M = 0
CosTurns(p, M) ==
  IF M = 0 THEN NaN
  ELSE LET r == p % M
       IN  CASE r = 0 -> FOne
             [] 2 * r = M -> FNeg(FOne)
             [] 3 * r = M \/ 3 * r = 2 * M -> Fin(0 - (One \div 2))
             [] 4 * r = M \/ 4 * r = 3 * M -> Zero

Half == Fin(One \div 2)

HannCoef(i, M) == FMul(Half, FSub(FOne, CosTurns(i, M)))

BlackmanHarrisCoef(i, M) ==
  FSub(FAdd(FSub(FDec(358750000), FMul(FDec(488290000), CosTurns(i, M))),
            FMul(FDec(141280000), CosTurns(2 * i, M))),
       FMul(FDec(11680000), CosTurns(3 * i, M)))

HammingCoef(i, M) == FSub(FDec(540000000), FMul(FDec(460000000), CosTurns(i, M)))

FlattopCoef(i, M) ==
  FAdd(FSub(FAdd(FSub(FDec(215578950), FMul(FDec(416631580), CosTurns(i, M))),
                 FMul(FDec(277263158), CosTurns(2 * i, M))),
            FMul(FDec(83578947), CosTurns(3 * i, M))),
       FMul(FDec(6947368), CosTurns(4 * i, M)))

\* one coefficient of the loop bodies of CalculateWindow, i = 0 .. fftSize - 1
WindowCoef(windowType, i, M) ==
  CASE windowType = "Hann" -> HannCoef(i, M)
    [] windowType = "BlackmanHarris" -> BlackmanHarrisCoef(i, M)
    [] windowType = "Hamming" -> HammingCoef(i, M)
    [] windowType = "Flattop" -> FlattopCoef(i, M)

\* the coefficients the loops of CalculateWindow generate, per type and per size
\* 1 .. MAX_FFT_SIZE (evaluated once)
WindowTable(windowType) ==
  Tab(LAMBDA n : Tab(LAMBDA i : WindowCoef(windowType, i - 1, n - 1), n), MAX_FFT_SIZE)

HannTable == WindowTable("Hann")
BlackmanHarrisTable == WindowTable("BlackmanHarris")
HammingTable == WindowTable("Hamming")
FlattopTable == WindowTable("Flattop")

Generated(windowType, fftSize) ==
  CASE windowType = "Hann" -> HannTable[fftSize]
    [] windowType = "BlackmanHarris" -> BlackmanHarrisTable[fftSize]
    [] windowType = "Hamming" -> HammingTable[fftSize]
    [] windowType = "Flattop" -> FlattopTable[fftSize]

\* mWindow after CalculateWindow: the loops write entries 0 .. fftSize - 1 and
\* leave the rest, std::fill writes the whole array
CalculateWindow(windowType, fftSize, window) ==
  IF windowType = "Rectangular" THEN Tab(LAMBDA i : FOne, MAX_FFT_SIZE)
  ELSE Tab(LAMBDA i : IF i <= fftSize THEN Generated(windowType, fftSize)[i]
                      ELSE window[i],
           MAX_FFT_SIZE)

\* a faulty variant: the reference curve stepped by the period fftSize instead of fftSize - 1
ScalingTermPeriodic(i, M) == FMul(Half, FSub(FOne, CosTurns(i, M + 1)))

\* the Hann-shaped reference curve of CalculateScalingFactors
ScalingTerm(i, M) == FMul(Half, FSub(FOne, CosTurns(i, M)))

\* scaling * scaling after the summing loop, per size 1 .. MAX_FFT_SIZE
\* (evaluated once)
SquaredSum(scaling) == FMul(scaling, scaling)

ScalingTable ==
  Tab(LAMBDA n : SquaredSum(FSum(Tab(LAMBDA i : ScalingTerm(i - 1, n - 1), n), n)),
      MAX_FFT_SIZE)

\* mScalingFactor after CalculateScalingFactors
CalculateScalingFactors(fftSize) == ScalingTable[fftSize]

(***************************************************************************)
(* Frames and the output buffer.                                           *)
(***************************************************************************)
CZero == [re |-> Zero, im |-> Zero]

\* mSTFTFrames after SetFFTSize: mOverlap frames, bins zero, pos 0
ResetFrames(overlap) ==
  Tab(LAMBDA f : [pos |-> 0,
                  bins |-> Tab(LAMBDA ch : Tab(LAMBDA i : CZero, MAX_FFT_SIZE), MAXNC)],
      overlap)

\* a faulty variant: SetFFTSize without the loop that fills mSTFTOutput: the storage stays
\* as the constructor found it
ResetOutputSkipped == Tab(LAMBDA ch : Tab(LAMBDA i : Indet, MAX_FFT_SIZE), MAXNC)

\* mSTFTOutput after SetFFTSize: zero on every channel
ResetOutput == Tab(LAMBDA ch : Tab(LAMBDA i : Zero, MAX_FFT_SIZE), MAXNC)

(***************************************************************************)
(* The forward transform and its permutation.                              *)
(***************************************************************************)
\* multiplication by (-i)^q
Rot(c, q) ==
  CASE q = 0 -> c
    [] q = 1 -> [re |-> c.im, im |-> FNeg(c.re)]
    [] q = 2 -> [re |-> FNeg(c.re), im |-> FNeg(c.im)]
    [] q = 3 -> [re |-> FNeg(c.im), im |-> c.re]

CAdd(a, b) == [re |-> FAdd(a.re, b.re), im |-> FAdd(a.im, b.im)]

RECURSIVE DftSum(_, _, _, _)
\* sum over n = 0 .. m - 1 of x[n] * exp(-2 pi i k n / len)
DftSum(x, len, k, m) ==
  IF m = 1 THEN Rot(x[1], 0)
  ELSE CAdd(DftSum(x, len, k, m - 1),
            Rot(x[m], (((4 \div len) * k * (m - 1)) % 4)))

RECURSIVE BitRev(_, _)
\* idx with its log2(len) bits reversed
BitRev(len, idx) ==
  IF len <= 1 THEN 0
  ELSE (idx % 2) * (len \div 2) + BitRev(len \div 2, idx \div 2)

\* the position in the transformed buffer that holds frequency bin idx
WDL_fft_permute(fftsize, idx) == BitRev(fftsize, idx)

\* the buffer after the in-place forward transform of its first len entries
WDL_fft(buf, len) ==
  Tab(LAMBDA j :
        IF j <= len
        THEN DftSum(buf, len,
                    CHOOSE k \in 0..(len - 1) : WDL_fft_permute(len, k) = j - 1, len)
        ELSE buf[j],
      MAX_FFT_SIZE)

(***************************************************************************)
(* Encoding of a transformed frame into one channel of the output buffer.  *)
(***************************************************************************)
Two == Fin(2 * One)

\* std::sqrt(2.0f * (re * re + im * im) / mScalingFactor)
Magnitude(c, scalingFactor) ==
  FSqrt(FDiv(FMul(Two, FAdd(FMul(c.re, c.re), FMul(c.im, c.im))), scalingFactor))

\* the output entries the Complex branch writes: nBins = fftSize / 2 pairs
ComplexOut(bins, fftSize, out) ==
  LET nBins == fftSize \div 2
  IN  Tab(LAMBDA j :
            IF j <= nBins THEN bins[WDL_fft_permute(fftSize, j - 1) + 1].re
            ELSE IF j <= 2 * nBins
                 THEN bins[WDL_fft_permute(fftSize, j - 1 - nBins) + 1].im
                 ELSE out[j],
          MAX_FFT_SIZE)

\* the output entries the magnitude branch writes: fftSize values
MagOut(bins, fftSize, scalingFactor, out) ==
  Tab(LAMBDA j :
        IF j <= fftSize
        THEN Magnitude(bins[WDL_fft_permute(fftSize, j - 1) + 1], scalingFactor)
        ELSE out[j],
      MAX_FFT_SIZE)

\* mSTFTOutput[ch] after Permute(ch, frame), given the transformed bins
PermuteOut(outputType, bins, fftSize, scalingFactor, out) ==
  IF outputType = "Complex" THEN ComplexOut(bins, fftSize, out)
  ELSE MagOut(bins, fftSize, scalingFactor, out)

\* the output indices Permute writes (0-based index j is j + 1 here)
PermuteWrites(outputType, fftSize) ==
  IF outputType = "Complex" THEN 1..(2 * (fftSize \div 2)) ELSE 1..fftSize

\* memcpy(dataPacket.vals[ch].data(), mSTFTOutput[ch].data(), fftSize * sizeof(float))
CopyOut(packet, out, fftSize) ==
  Tab(LAMBDA j : IF j <= fftSize THEN out[j] ELSE packet[j], MAX_FFT_SIZE)


(***************************************************************************)
(* Inputs.                                                                 *)
(***************************************************************************)
FFTSizes == 0..(MAX_FFT_SIZE + 1)
Overlaps == 0..MaxOverlap

\* one channel of a block of n samples: silence, a unit impulse at any position,
\* or a constant of either sign; entries past the block are zero
ChannelBlocks(n) ==
  {Tab(LAMBDA i : Zero, MAX_FFT_SIZE)}
    \cup {Tab(LAMBDA i : IF i = p THEN FOne ELSE Zero, MAX_FFT_SIZE) : p \in 1..n}
    \cup {Tab(LAMBDA i : IF i <= n THEN a ELSE Zero, MAX_FFT_SIZE) : a \in {FOne, FNeg(FOne)}}

\* one block per channel
RECURSIVE Packets(_, _)
Packets(n, nch) ==
  IF nch = 0 THEN {<< >>}
  ELSE {Append(p, b) : p \in Packets(n, nch - 1), b \in ChannelBlocks(n)}

InputBlocks(n) == Packets(n, MAXNC)

(***************************************************************************)
(* State.                                                                  *)
(***************************************************************************)
VARIABLES
  pc,              \* "new", "idle", "aborted" (an assertion failed), "undefined"
  mBufferSize,     \* TBufferSender::GetBufferSize()
  mOverlap,
  mWindowType,
  mOutputType,
  mWindow,
  mSTFTFrames,
  mSTFTOutput,
  mScalingFactor,
  dataPacket,      \* dataPacket.vals as the call that returned last left it
  inBlock,         \* history: the block as the caller passed it to that call
  fed,             \* history: per frame, the cursor and samples of each write of that call
  fresh,           \* history: per channel, the output indices the last Permute wrote
  completed,       \* history: the frames that call completed, in order, each with
                   \* the number of samples of the call it had read by then
  last,            \* history: the operation that returned last
  ops              \* history: the number of operations made on the constructed object

vars == <<pc, mBufferSize, mOverlap, mWindowType, mOutputType, mWindow, mSTFTFrames,
          mSTFTOutput, mScalingFactor, dataPacket, inBlock, fed, fresh, completed,
          last, ops>>

\* the data packet is the caller's: the model keeps it, and the histories of the
\* call, until the next operation on the object
NoPacket == Tab(LAMBDA ch : Tab(LAMBDA i : Zero, MAX_FFT_SIZE), MAXNC)

ForgetCall ==
  /\ dataPacket' = NoPacket
  /\ inBlock' = NoPacket
  /\ fed' = << >>
  /\ completed' = << >>

\* the object's storage before the constructor runs
Init ==
  /\ pc = "new"
  /\ mBufferSize = 0
  /\ mOverlap = 2
  /\ mWindowType = "Hann"
  /\ mOutputType = "MagPhase"
  /\ mWindow = Tab(LAMBDA i : Indet, MAX_FFT_SIZE)
  /\ mSTFTFrames = << >>
  /\ mSTFTOutput = Tab(LAMBDA ch : Tab(LAMBDA i : Indet, MAX_FFT_SIZE), MAXNC)
  /\ mScalingFactor = Zero
  /\ dataPacket = NoPacket
  /\ inBlock = NoPacket
  /\ fed = << >>
  /\ fresh = Tab(LAMBDA ch : {}, MAXNC)
  /\ completed = << >>
  /\ last = "none"
  /\ ops = 0

(***************************************************************************)
(* Configuration.                                                          *)
(***************************************************************************)
\* the body of SetFFTSizeAndOverlap, with the window type in force
ApplyFFTSizeAndOverlap(fftSize, overlap, windowType) ==
  /\ mOverlap' = overlap
  /\ IF SetBufferSizeOk(fftSize)
     THEN /\ mBufferSize' = fftSize
          /\ mSTFTFrames' = ResetFrames(overlap)
          /\ mSTFTOutput' = ResetOutput
          /\ fresh' = Tab(LAMBDA ch : {}, MAXNC)
          /\ mWindow' = CalculateWindow(windowType, fftSize, mWindow)
          /\ mScalingFactor' = CalculateScalingFactors(fftSize)
          /\ pc' = "idle"
     ELSE /\ pc' = "aborted"
          /\ UNCHANGED <<mBufferSize, mSTFTFrames, mSTFTOutput, fresh, mWindow,
                         mScalingFactor>>

Construct(fftSize, overlap, window, outputType) ==
  /\ pc = "new"
  /\ mWindowType' = window
  /\ mOutputType' = outputType
  /\ IF CtorAsserts(fftSize)
     THEN ApplyFFTSizeAndOverlap(fftSize, overlap, window)
     ELSE /\ pc' = "aborted"
          /\ UNCHANGED <<mBufferSize, mOverlap, mSTFTFrames, mSTFTOutput, fresh,
                         mWindow, mScalingFactor>>
  /\ last' = "Construct"
  /\ ForgetCall
  /\ UNCHANGED ops

\* a faulty variant: SetFFTSizeAndOverlap without its call of CalculateWindow
SetFFTSizeAndOverlapStaleWindow(fftSize, overlap) ==
  /\ pc = "idle"
  /\ ops < MaxOps
  /\ ops' = ops + 1
  /\ mOverlap' = overlap
  /\ IF SetBufferSizeOk(fftSize)
     THEN /\ mBufferSize' = fftSize
          /\ mSTFTFrames' = ResetFrames(overlap)
          /\ mSTFTOutput' = ResetOutput
          /\ fresh' = Tab(LAMBDA ch : {}, MAXNC)
          /\ mScalingFactor' = CalculateScalingFactors(fftSize)
          /\ pc' = "idle"
     ELSE /\ pc' = "aborted"
          /\ UNCHANGED <<mBufferSize, mSTFTFrames, mSTFTOutput, fresh, mScalingFactor>>
  /\ last' = "SetFFTSizeAndOverlap"
  /\ ForgetCall
  /\ UNCHANGED <<mWindowType, mOutputType, mWindow>>

SetFFTSizeAndOverlap(fftSize, overlap) ==
  /\ pc = "idle"
  /\ ops < MaxOps
  /\ ops' = ops + 1
  /\ ApplyFFTSizeAndOverlap(fftSize, overlap, mWindowType)
  /\ last' = "SetFFTSizeAndOverlap"
  /\ ForgetCall
  /\ UNCHANGED <<mWindowType, mOutputType>>

\* a faulty variant: SetWindowType going through SetFFTSize as well
SetWindowTypeResetting(windowType) ==
  /\ pc = "idle"
  /\ ops < MaxOps
  /\ ops' = ops + 1
  /\ mWindowType' = windowType
  /\ mSTFTFrames' = ResetFrames(mOverlap)
  /\ mSTFTOutput' = ResetOutput
  /\ fresh' = Tab(LAMBDA ch : {}, MAXNC)
  /\ mWindow' = CalculateWindow(windowType, mBufferSize, mWindow)
  /\ last' = "SetWindowType"
  /\ UNCHANGED <<pc, mBufferSize, mOverlap, mOutputType, mScalingFactor>>
  /\ ForgetCall

SetWindowType(windowType) ==
  /\ pc = "idle"
  /\ ops < MaxOps
  /\ ops' = ops + 1
  /\ mWindowType' = windowType
  /\ mWindow' = CalculateWindow(windowType, mBufferSize, mWindow)
  /\ last' = "SetWindowType"
  /\ UNCHANGED <<pc, mBufferSize, mOverlap, mOutputType, mSTFTFrames, mSTFTOutput,
                 mScalingFactor, fresh>>
  /\ ForgetCall

\* a faulty variant: SetOutputType clearing the output encoded in the previous type
SetOutputTypeClearing(outputType) ==
  /\ pc = "idle"
  /\ ops < MaxOps
  /\ ops' = ops + 1
  /\ mOutputType' = outputType
  /\ mSTFTOutput' = ResetOutput
  /\ fresh' = Tab(LAMBDA ch : {}, MAXNC)
  /\ last' = "SetOutputType"
  /\ UNCHANGED <<pc, mBufferSize, mOverlap, mWindowType, mWindow, mSTFTFrames,
                 mScalingFactor>>
  /\ ForgetCall

SetOutputType(outputType) ==
  /\ pc = "idle"
  /\ ops < MaxOps
  /\ ops' = ops + 1
  /\ mOutputType' = outputType
  /\ last' = "SetOutputType"
  /\ UNCHANGED <<pc, mBufferSize, mOverlap, mWindowType, mWindow, mSTFTFrames,
                 mSTFTOutput, mScalingFactor, fresh>>
  /\ ForgetCall

(***************************************************************************)
(* PrepareDataForUI.                                                       *)
(***************************************************************************)
\* a faulty variant: the loop body without stftFrame.pos++
WriteSampleNoAdvance(frame, packet, window, s) ==
  [pos |-> frame.pos,
   bins |-> Tab(LAMBDA ch :
                  [frame.bins[ch] EXCEPT ![frame.pos + 1] =
                     [re |-> FMul(packet[ch][s + 1], window[frame.pos + 1]),
                      im |-> Zero]],
                MAXNC)]

\* the frame after the loop over the channels has written the sample at index s
WriteSample(frame, packet, window, s) ==
  [pos |-> frame.pos + 1,
   bins |-> Tab(LAMBDA ch :
                  [frame.bins[ch] EXCEPT ![frame.pos + 1] =
                     [re |-> FMul(packet[ch][s + 1], window[frame.pos + 1]),
                      im |-> Zero]],
                MAXNC)]

\* what completing frame f leaves: the transformed bins in the frame, the encoded
\* output, and the output copied over the first fftSize entries of the packet
Emit(st, f, bins, out, fftSize, outputType) ==
  [st EXCEPT
     !.frames[f + 1] = [pos |-> 0, bins |-> bins],
     !.out = out,
     !.fresh = Tab(LAMBDA ch : PermuteWrites(outputType, fftSize), MAXNC),
     !.completed = Append(@, [frame |-> f + 1, samples |-> Len(st.fed[f + 1])]),
     !.packet = Tab(LAMBDA ch : CopyOut(st.packet[ch], out[ch], fftSize), MAXNC)]

\* Permute(ch, stftFrame) for every channel, on the transformed bins
Encode(st, f, bins, fftSize, outputType, scalingFactor) ==
  Emit(st, f, bins,
       Tab(LAMBDA ch :
             PermuteOut(outputType, bins[ch], fftSize, scalingFactor, st.out[ch]),
           MAXNC),
       fftSize, outputType)

\* the rest of the loop body once the sample is written and the cursor advanced
AfterWrite(st, f, written, fftSize, outputType, scalingFactor) ==
  IF written.pos >= fftSize
  THEN IF is_powerof2(fftSize)
       THEN Encode(st, f, Tab(LAMBDA ch : WDL_fft(written.bins[ch], fftSize), MAXNC),
                   fftSize, outputType, scalingFactor)
       ELSE \* the transform is defined for powers of two only
            [st EXCEPT !.undefined = TRUE]
  ELSE [st EXCEPT !.frames[f + 1] = written]

\* history: the cursor and the samples frame f reads at sample index s
LogRead(st, s, f) ==
  [st EXCEPT !.fed[f + 1] =
     Append(@, [pos |-> st.frames[f + 1].pos,
                val |-> Tab(LAMBDA ch : st.packet[ch][s + 1], MAXNC)])]

\* the body of the loop over the frames, for sample index s and frame index f;
\* st holds the frames, the output buffer, the data packet and the histories
FrameBody(st, s, f, fftSize, outputType, window, scalingFactor) ==
  AfterWrite(LogRead(st, s, f), f, WriteSample(st.frames[f + 1], st.packet, window, s),
             fftSize, outputType, scalingFactor)

RECURSIVE RunLoops(_, _, _, _, _, _, _, _)
\* the two nested loops of PrepareDataForUI from (sampleIdx, stftFrameIdx) = (s, f) on
RunLoops(st, s, f, fftSize, overlap, outputType, window, scalingFactor) ==
  IF s >= fftSize \/ st.undefined THEN st
  ELSE IF f >= overlap
       THEN RunLoops(st, s + 1, 0, fftSize, overlap, outputType, window, scalingFactor)
       ELSE RunLoops(FrameBody(st, s, f, fftSize, outputType, window, scalingFactor),
                     s, f + 1, fftSize, overlap, outputType, window, scalingFactor)

\* the state PrepareDataForUI returns with
Return(st) ==
  /\ mSTFTFrames' = st.frames
  /\ mSTFTOutput' = st.out
  /\ dataPacket' = st.packet
  /\ fresh' = st.fresh
  /\ fed' = st.fed
  /\ completed' = st.completed
  /\ pc' = IF st.undefined THEN "undefined" ELSE "idle"

PrepareDataForUI(block) ==
  /\ pc = "idle"
  /\ ops < MaxOps
  /\ ops' = ops + 1
  /\ Return(RunLoops([frames |-> mSTFTFrames, out |-> mSTFTOutput, packet |-> block,
                      fresh |-> fresh, fed |-> Tab(LAMBDA f : << >>, mOverlap),
                      completed |-> << >>,
                      undefined |-> FALSE],
                     0, 0, mBufferSize, mOverlap, mOutputType, mWindow, mScalingFactor))
  /\ inBlock' = block
  /\ last' = "PrepareDataForUI"
  /\ UNCHANGED <<mBufferSize, mOverlap, mWindowType, mOutputType, mWindow, mScalingFactor>>

Next ==
  \/ \E n \in FFTSizes, k \in Overlaps, w \in EWindowType, o \in EOutputType :
       Construct(n, k, w, o)
  \/ \E n \in FFTSizes, k \in Overlaps : SetFFTSizeAndOverlap(n, k)
  \/ \E w \in EWindowType : SetWindowType(w)
  \/ \E o \in EOutputType : SetOutputType(o)
  \/ \E b \in InputBlocks(mBufferSize) : PrepareDataForUI(b)

Spec == Init /\ [][Next]_vars


(***************************************************************************)
(* Properties.                                                             *)
(***************************************************************************)
Accepted == pc \in {"idle", "undefined"}
Returned(op) == pc = "idle" /\ last = op
ValidSize == CtorAsserts(mBufferSize)
Processed == Returned("PrepareDataForUI") /\ ValidSize /\ mOverlap >= 1

Cursors0 == \A f \in 1..Len(mSTFTFrames) : mSTFTFrames[f].pos = 0
OutputZero == \A ch \in Channels : \A i \in Slots : mSTFTOutput[ch][i] = Zero
OutputLive == \E ch \in Channels : \E i \in Slots : mSTFTOutput[ch][i] # Zero

\* C1: during a call with K >= 2 every frame reads, at every sample index
\* (the last one included), the caller's sample at the same cursor, so the
\* frames end the call with identical content.
C1_SameSampleEveryFrame ==
  (Processed /\ mOverlap >= 2) =>
     /\ \A f \in 1..mOverlap : \A s \in 1..mBufferSize :
          /\ fed[f][s].pos = s - 1
          /\ \A ch \in Channels : fed[f][s].val[ch] = inBlock[ch][s]
     /\ \A f \in 1..mOverlap : mSTFTFrames[f] = mSTFTFrames[1]

\* the buffer out holds the bins encoded in outputType, as the claims word it
EncodedAs(outputType, out, bins, fftSize, scalingFactor) ==
  IF outputType = "Complex"
  THEN \A i \in 0..((fftSize \div 2) - 1) :
         /\ out[i + 1] = bins[WDL_fft_permute(fftSize, i) + 1].re
         /\ out[i + 1 + (fftSize \div 2)] = bins[WDL_fft_permute(fftSize, i) + 1].im
  ELSE \A i \in 0..(fftSize - 1) :
         out[i + 1] = Magnitude(bins[WDL_fft_permute(fftSize, i) + 1], scalingFactor)

\* the output buffer of every channel is the encoding, in the type configured now,
\* of the frame in the last slot
HoldsLastFrame(out, frames, outputType) ==
  \A ch \in Channels :
    EncodedAs(outputType, out[ch], frames[mOverlap].bins[ch], mBufferSize, mScalingFactor)

NonNegative(a) == (IsFin(a) /\ a.v >= 0) \/ a = PInf

\* C2 (as stated): after any reconfiguration operation every cursor is 0 and
\* every channel's output buffer is all zero.
C2_EveryReconfigurationResets ==
  (pc = "idle" /\ last \in {"SetFFTSizeAndOverlap", "SetWindowType", "SetOutputType"})
    => (Cursors0 /\ OutputZero)

\* C2 (amended): every reconfiguration operation leaves every cursor at 0;
\* SetFFTSizeAndOverlap also leaves one zeroed frame per overlap slot and every
\* channel's output buffer all zero, while SetWindowType and SetOutputType
\* leave the frames and the output buffer as they were.
C2_OnlySizeAndOverlapResets ==
  [][/\ (ops' = ops + 1 /\ pc' = "idle" /\ last' = "SetFFTSizeAndOverlap")
          => /\ Len(mSTFTFrames') = mOverlap'
             /\ mSTFTFrames' = ResetFrames(mOverlap')
             /\ \A ch \in Channels : \A i \in Slots : mSTFTOutput'[ch][i] = Zero
     /\ (ops' = ops + 1 /\ last' \in {"SetWindowType", "SetOutputType"})
          => /\ \A f \in 1..Len(mSTFTFrames') : mSTFTFrames'[f].pos = 0
             /\ UNCHANGED <<mSTFTFrames, mSTFTOutput>>]_vars

\* a second operation was SetFFTSizeAndOverlap, on an object whose first
\* operation is over, and it left frames to reset
C2_Witness ==
  Returned("SetFFTSizeAndOverlap") /\ ops = 2 /\ mOverlap = 2 /\ mBufferSize = 4
    /\ OutputZero

\* C3: no accepted configuration, at construction or through
\* SetFFTSizeAndOverlap, leaves a transform size that is not a power of two in
\* 1 .. MAX_FFT_SIZE.
C3_SizeAlwaysValidated == Accepted => ValidSize

\* C4: SetWindowType leaves every frame, the number of frames, the output
\* buffer, the scaling factor, the transform size, the overlap and the output
\* type unchanged.
C4_WindowTypeOnly ==
  [][(ops' = ops + 1 /\ last' = "SetWindowType")
       => UNCHANGED <<mSTFTFrames, mSTFTOutput, mScalingFactor, mBufferSize, mOverlap,
                      mOutputType>>]_vars

\* SetWindowType returned on an object holding the output of a completed frame
C4_Witness ==
  Returned("SetWindowType") /\ OutputLive /\ mOverlap >= 1
    /\ \E ch \in Channels : \E i \in Slots : mSTFTFrames[1].bins[ch][i] # CZero

\* C5: SetOutputType leaves the frames, the window table, the scaling factor
\* and the output buffer unchanged (nothing is re-encoded), and a frame that
\* completes in a later call is encoded in the type configured then.
C5_OutputTypeOnly ==
  [][/\ (ops' = ops + 1 /\ last' = "SetOutputType")
          => UNCHANGED <<mSTFTFrames, mWindow, mWindowType, mScalingFactor, mSTFTOutput,
                         mBufferSize, mOverlap>>
     /\ (ops' = ops + 1 /\ last' = "PrepareDataForUI" /\ pc' = "idle"
           /\ ValidSize /\ mOverlap >= 1)
          => HoldsLastFrame(mSTFTOutput', mSTFTFrames', mOutputType)]_vars

\* SetOutputType returned on an object holding the output of a completed frame
C5_Witness == Returned("SetOutputType") /\ OutputLive /\ mBufferSize = 4

\* C6: after a call with K >= 1, on every channel the output buffer and the
\* first N entries of the packet hold the encoding of the frame in the last
\* slot, every one of the N entries written by that encoding.
C6_HoldsOnlyLastFrame ==
  (Processed /\ mOverlap >= 1) =>
     /\ HoldsLastFrame(mSTFTOutput, mSTFTFrames, mOutputType)
     /\ \A ch \in Channels : \A i \in 1..mBufferSize :
          /\ i \in fresh[ch]
          /\ dataPacket[ch][i] = mSTFTOutput[ch][i]

\* C7: a completed frame writes all N output entries of the channel: in
\* Complex mode the real parts then the imaginary parts of the permuted bins,
\* in Magnitude mode N non-negative values.
C7_EncodingWritesAll ==
  Processed =>
     \A ch \in Channels :
       /\ fresh[ch] = 1..mBufferSize
       /\ mOutputType = "Complex" =>
            EncodedAs("Complex", mSTFTOutput[ch], mSTFTFrames[mOverlap].bins[ch],
                      mBufferSize, mScalingFactor)
       /\ mOutputType = "MagPhase" =>
            \A i \in 1..mBufferSize : NonNegative(mSTFTOutput[ch][i])

\* C8: a call on a block of N zero samples leaves the N output entries of
\* every channel exactly zero.
C8_SilenceGivesZero ==
  (Processed /\ inBlock = NoPacket) =>
     \A ch \in Channels : \A i \in 1..mBufferSize : mSTFTOutput[ch][i] = Zero

\* C9: for every window type and valid size, every coefficient at 0 .. N-1 is
\* a well-defined value in [0, 1], and exactly 1.0 for Rectangular.
C9_WindowInUnitRange ==
  (Accepted /\ ValidSize) =>
     \A i \in 1..mBufferSize :
       /\ IsFin(mWindow[i]) /\ mWindow[i].v >= 0 /\ mWindow[i].v <= One
       /\ mWindowType = "Rectangular" => mWindow[i] = FOne

\* C10: whatever the operations made and the window type selected, the scaling
\* factor is the square of the sum of the Hann coefficients of the current size
\* (at N = 1 that coefficient, and so both sides, is the 0/0 of M = 0).
C10_ScalingIsHannSquared ==
  Accepted =>
     mScalingFactor = FMul(FSum(HannTable[mBufferSize], mBufferSize),
                           FSum(HannTable[mBufferSize], mBufferSize))

\* a call returned on an object of size 4 whose window is not Hann, with the
\* finite scaling factor (0.75 + 0.75)^2
C10_Witness ==
  Returned("PrepareDataForUI") /\ mBufferSize = 4 /\ mWindowType = "Flattop"
    /\ OutputLive /\ mScalingFactor = Fin((9 * One) \div 4)

\* C11: after construction and after every operation, the first N entries of
\* the window table are the coefficients of the selected window type for the
\* current size N: 1.0 for Rectangular, and otherwise the type's expression at
\* i = 0 .. N-1 with the divisor M = N - 1.
C11_WindowTableCurrent ==
  Accepted =>
     \A i \in 1..mBufferSize :
       mWindow[i] = IF mWindowType = "Rectangular" THEN FOne
                    ELSE WindowCoef(mWindowType, i - 1, mBufferSize - 1)

\* a second operation was SetFFTSizeAndOverlap to size 4 on an object whose
\* window is not Hann, and the table holds the Hamming coefficients for 4
C11_Witness ==
  Returned("SetFFTSizeAndOverlap") /\ ops = 2 /\ mBufferSize = 4
    /\ mWindowType = "Hamming" /\ mWindow[1] = Fin(83887) /\ mWindow[2] # mWindow[1]

\* C12: with N a power of two and K >= 1 there are exactly K frames; during a
\* call every frame reads sample index s with its cursor at s (so the cursors
\* are equal and below N after each sample), every frame is completed exactly
\* once, in slot order, each on the last of the N samples, and between calls
\* every cursor is 0.
C12_FramesInLockstep ==
  (pc = "idle" /\ ValidSize /\ mOverlap >= 1) =>
     /\ Len(mSTFTFrames) = mOverlap
     /\ \A f \in 1..mOverlap : mSTFTFrames[f].pos = 0
     /\ last = "PrepareDataForUI" =>
          /\ \A f \in 1..mOverlap :
               /\ Len(fed[f]) = mBufferSize
               /\ \A s \in 1..mBufferSize :
                    fed[f][s].pos = s - 1 /\ fed[f][s].pos < mBufferSize
          /\ Len(completed) = mOverlap
          /\ \A f \in 1..mOverlap :
               completed[f] = [frame |-> f, samples |-> mBufferSize]

\* a call returned on an object of size 4 with two frames, after an earlier
\* operation, and both frames were completed
C12_Witness ==
  Returned("PrepareDataForUI") /\ ops = 2 /\ mBufferSize = 4 /\ mOverlap = 2
    /\ Len(completed) = 2 /\ mSTFTFrames[2].pos = 0

=============================================================================
